---- MODULE Spec2Model ----
(***************************************************************************)
(* Model of keycheb.py: evaluation of a Chebyshev series by Clenshaw's     *)
(* recurrence (clenshaw) and by naive basis summation (t, tpoly).          *)
(*                                                                         *)
(* Arithmetic is exact: coefficients and the evaluation point are bounded  *)
(* integers.  The float() casts of the source are value preserving on      *)
(* integers of this magnitude (|v| < 2^53) and are therefore not given an  *)
(* operator of their own; every other arithmetic step is written as in the *)
(* source.  Sequences are 1-based here and 0-based in the source: Index    *)
(* does the translation, with Python's rule for negative subscripts.       *)
(***************************************************************************)
EXTENDS Integers, Sequences, FiniteSets, TLC

\* ------------------------------------------------------------------ bounds
MaxLen == 4
MaxCoef == 1
MaxX == 2
MaxScale == 2

Coefs == (0 - MaxCoef)..MaxCoef
Points == (0 - MaxX)..MaxX
Scalars == (0 - MaxScale)..MaxScale

SeqsOfLen(m) == [1..m -> Coefs]
CoefSeqs == UNION {SeqsOfLen(m) : m \in 0..MaxLen}

\* The series [2, -1, 0.5], written in units of one half.
ScenarioCoefs == <<4, -2, 1>>

Inputs == CoefSeqs \cup {ScenarioCoefs}

\* ------------------------------------------------- naive oracle (t, tpoly)
RECURSIVE t(_, _)
t(n, y) ==
    IF n = 0 THEN 1
    ELSE IF n = 1 THEN y
    ELSE 2 * y * t(n - 1, y) - t(n - 2, y)

RECURSIVE tpolySum(_, _, _)
tpolySum(c, y, n) ==
    IF n = 0 THEN 0
    ELSE tpolySum(c, y, n - 1) + c[n] * t(n - 1, y)

tpoly(c, y) == tpolySum(c, y, Len(c))

\* ------------------------------------------------------- clenshaw, helpers
\* Python subscripting: c[i] is defined for -len(c) <= i < len(c).
ValidIndex(c, i) == (0 - Len(c)) <= i /\ i < Len(c)

Index(c, i) == IF i >= 0 THEN c[i + 1] ELSE c[Len(c) + i + 1]

N(c) == Len(c) - 1

Empty == 0

\* Returns T_0 itself, dropping the coefficient.
ConstantAsT0(c) == t(0, Index(c, 0))

Constant(c) == Index(c, 0)

LinearSwapped(c, y) == Index(c, 0) * y + Index(c, 1)

LinearNoX(c, y) == Index(c, 0) + Index(c, 1)

Linear(c, y) == Index(c, 0) + Index(c, 1) * y

SeedIndexPastEnd(c) == N(c) + 1

SeedIndex(c) == N(c)

FirstKOffByOne(c) == N(c)

FirstK(c) == N(c) - 1

RecurNoTwo(ak, y, b1, b2) == ak + y * b1 - b2

RecurPlus(ak, y, b1, b2) == ak + 2 * y * b1 + b2

Recur(ak, y, b1, b2) == ak + 2 * y * b1 - b2

\* The pair (new b_k_plus_1, new b_k_plus_2) after one iteration.
ShiftClobbered(bk, b1) == <<bk, bk>>

Shift(bk, b1) == <<bk, b1>>

ClosingDropB2(y, b1, b2) == b1 - y

ClosingTwoX(y, b1, b2) == b1 - 2 * y * b2

Closing(y, b1, b2) == b1 - y * b2

\* The loop of lines 66-74 from index j downwards, as a function of the
\* two accumulators; ok is FALSE when a subscript raised IndexError.
RECURSIVE ClenshawLoop(_, _, _, _, _)
ClenshawLoop(c, y, j, b1, b2) ==
    IF j < 0 THEN [ok |-> TRUE, b1 |-> b1, b2 |-> b2]
    ELSE IF ~ValidIndex(c, j) THEN [ok |-> FALSE, b1 |-> b1, b2 |-> b2]
    ELSE LET sh == Shift(Recur(Index(c, j), y, b1, b2), b1)
         IN  ClenshawLoop(c, y, j - 1, sh[1], sh[2])

\* Lines 61-81 on their own: seed, loop and closing step, entered without
\* the early returns of lines 42-52.  val is meaningful only when ok.
GeneralPath(c, y) ==
    IF ~ValidIndex(c, SeedIndex(c)) THEN [ok |-> FALSE, val |-> 0]
    ELSE LET r == ClenshawLoop(c, y, FirstK(c), Index(c, SeedIndex(c)), 0)
         IN  IF r.ok THEN [ok |-> TRUE, val |-> Closing(y, r.b1, r.b2)]
             ELSE [ok |-> FALSE, val |-> 0]

\* The whole call as a function of its arguments.
clenshaw(c, y) ==
    IF N(c) < 0 THEN [ok |-> TRUE, val |-> Empty]
    ELSE IF N(c) = 0 THEN [ok |-> TRUE, val |-> Constant(c)]
    ELSE IF N(c) = 1 THEN [ok |-> TRUE, val |-> Linear(c, y)]
    ELSE GeneralPath(c, y)

\* ---------------------------------------------------------------- state
VARIABLES a, x, pc, k, b_k_plus_1, b_k_plus_2, result, reads, iters

vars == <<a, x, pc, k, b_k_plus_1, b_k_plus_2, result, reads, iters>>

Init ==
    /\ a \in Inputs
    /\ x \in Points
    /\ pc = "start"
    /\ k = 0
    /\ b_k_plus_1 = 0
    /\ b_k_plus_2 = 0
    /\ result = 0
    /\ reads = {}
    /\ iters = 0

\* A subscript outside the sequence raises IndexError and ends the call.
Raise ==
    /\ pc' = "error"
    /\ UNCHANGED <<a, x, k, b_k_plus_1, b_k_plus_2, result, iters>>

ReturnEmpty ==
    /\ pc = "start"
    /\ N(a) < 0
    /\ result' = Empty
    /\ pc' = "done"
    /\ UNCHANGED <<a, x, k, b_k_plus_1, b_k_plus_2, reads, iters>>

ReturnConstant ==
    /\ pc = "start"
    /\ ~(N(a) < 0)
    /\ N(a) = 0
    /\ reads' = reads \cup {0}
    /\ IF ValidIndex(a, 0)
       THEN /\ result' = Constant(a)
            /\ pc' = "done"
            /\ UNCHANGED <<a, x, k, b_k_plus_1, b_k_plus_2, iters>>
       ELSE Raise

ReturnLinear ==
    /\ pc = "start"
    /\ ~(N(a) < 0)
    /\ N(a) # 0
    /\ N(a) = 1
    /\ reads' = reads \cup {0, 1}
    /\ IF ValidIndex(a, 0) /\ ValidIndex(a, 1)
       THEN /\ result' = Linear(a, x)
            /\ pc' = "done"
            /\ UNCHANGED <<a, x, k, b_k_plus_1, b_k_plus_2, iters>>
       ELSE Raise

Seed ==
    /\ pc = "start"
    /\ ~(N(a) < 0)
    /\ N(a) # 0
    /\ N(a) # 1
    /\ reads' = reads \cup {SeedIndex(a)}
    /\ IF ValidIndex(a, SeedIndex(a))
       THEN /\ b_k_plus_2' = 0
            /\ b_k_plus_1' = Index(a, SeedIndex(a))
            /\ k' = FirstK(a)
            /\ pc' = "loop"
            /\ UNCHANGED <<a, x, result, iters>>
       ELSE Raise

LoopStep ==
    /\ pc = "loop"
    /\ k >= 0
    /\ reads' = reads \cup {k}
    /\ IF ValidIndex(a, k)
       THEN LET b_k == Recur(Index(a, k), x, b_k_plus_1, b_k_plus_2)
                sh == Shift(b_k, b_k_plus_1)
            IN  /\ b_k_plus_1' = sh[1]
                /\ b_k_plus_2' = sh[2]
                /\ k' = k - 1
                /\ iters' = iters + 1
                /\ UNCHANGED <<a, x, pc, result>>
       ELSE Raise

Close ==
    /\ pc = "loop"
    /\ k < 0
    /\ result' = Closing(x, b_k_plus_1, b_k_plus_2)
    /\ pc' = "done"
    /\ UNCHANGED <<a, x, k, b_k_plus_1, b_k_plus_2, reads, iters>>

Next ==
    \/ ReturnEmpty
    \/ ReturnConstant
    \/ ReturnLinear
    \/ Seed
    \/ LoopStep
    \/ Close

Spec == Init /\ [][Next]_vars

\* A call, once made, runs to its return: the code is sequential.
FairSpec == Spec /\ WF_vars(Next)

TypeOK ==
    /\ a \in Inputs
    /\ x \in Points
    /\ pc \in {"start", "loop", "done", "error"}
    /\ k \in Int
    /\ b_k_plus_1 \in Int
    /\ b_k_plus_2 \in Int
    /\ result \in Int
    /\ reads \subseteq Int
    /\ iters \in Nat

\* The stepwise call and the function clenshaw describe the same code.
StepsAgree ==
    /\ pc = "done" => clenshaw(a, x) = [ok |-> TRUE, val |-> result]
    /\ pc = "error" => ~clenshaw(a, x).ok

\* ------------------------------------------------------------------ claims
Plus(c, d) == [i \in 1..Len(c) |-> c[i] + d[i]]
Scale(s, c) == [i \in 1..Len(c) |-> s * c[i]]
UnitVector(m, j) == [i \in 1..m |-> IF i = j + 1 THEN 1 ELSE 0]

RECURSIVE SumTo(_, _)
SumTo(c, n) == IF n = 0 THEN 0 ELSE SumTo(c, n - 1) + c[n]

RECURSIVE AltSumTo(_, _)
AltSumTo(c, n) ==
    IF n = 0 THEN 0
    ELSE AltSumTo(c, n - 1) + (IF (n - 1) % 2 = 0 THEN c[n] ELSE 0 - c[n])

\* C1: whenever a call has returned, its value equals the naive oracle
\* tpoly(a, x) = sum of a[i]*T_i(x); a unit vector e_j returns T_j(x).
C1_MatchesOracle ==
    pc = "done" =>
        /\ result = tpoly(a, x)
        /\ \A j \in 0..(Len(a) - 1) :
               a = UnitVector(Len(a), j) => result = t(j, x)

C1_Witness ==
    /\ pc = "done"
    /\ Len(a) = 4
    /\ a[4] # 0
    /\ a[3] # 0
    /\ x = 2
    /\ result = tpoly(a, x)
    /\ result # 0

\* C2: the empty series returns 0, a one-coefficient series returns that
\* coefficient, a two-coefficient series returns a0 + a1*x, each without
\* entering the loop.
C2_Degenerate ==
    pc = "done" =>
        /\ Len(a) = 0 => result = 0 /\ iters = 0
        /\ Len(a) = 1 => result = a[1] /\ iters = 0
        /\ Len(a) = 2 => result = a[1] + a[2] * x /\ iters = 0

C2_Witness ==
    /\ pc = "done"
    /\ Len(a) = 2
    /\ a[2] # 0
    /\ x = 2
    /\ result = a[1] + a[2] * x

\* C3: every call terminates with a value and never raises; every subscript
\* it reads lies in 0..M-1; for M >= 3 the loop index runs from N-1 down to
\* 0 and the loop has run exactly M-1 iterations when the call returns.
C3_Safe ==
    /\ pc # "error"
    /\ reads \subseteq 0..(Len(a) - 1)
    /\ pc = "loop" => /\ k \in (0 - 1)..(N(a) - 1)
                      /\ iters = N(a) - 1 - k
    /\ (pc = "done" /\ Len(a) >= 3) => /\ iters = Len(a) - 1
                                       /\ reads = 0..(Len(a) - 1)

C3_Total == [](C3_Safe) /\ <>(pc = "done")

C3_Witness ==
    /\ pc = "done"
    /\ Len(a) = 4
    /\ iters = 3
    /\ reads = 0..3

\* C4: for every b of the same length as a, the value of the element-wise
\* sum a + b at x is the value of a plus the value of b.
C4_Linear ==
    pc = "done" =>
        \A b \in SeqsOfLen(Len(a)) :
            LET rb == clenshaw(b, x)
                rs == clenshaw(Plus(a, b), x)
            IN  rb.ok /\ rs.ok /\ rs.val = result + rb.val

C4_Witness ==
    /\ pc = "done"
    /\ Len(a) = 4
    /\ x = 2
    /\ result # 0
    /\ \E b \in SeqsOfLen(4) :
           /\ clenshaw(b, x).val # 0
           /\ clenshaw(Plus(a, b), x).val = result + clenshaw(b, x).val
           /\ clenshaw(Plus(a, b), x).val # result

\* C5: for every scalar s, the value of s*a at x is s times the value of a.
C5_Scale ==
    pc = "done" =>
        \A s \in Scalars :
            LET rs == clenshaw(Scale(s, a), x)
            IN  rs.ok /\ rs.val = s * result

C5_Witness ==
    /\ pc = "done"
    /\ Len(a) = 4
    /\ x = 2
    /\ result # 0
    /\ clenshaw(Scale(2, a), x).val = 2 * result

\* C6: at x = 1 the value is the plain sum of the coefficients and at
\* x = -1 it is the alternating sum of (-1)^k * a[k].
C6_Endpoints ==
    pc = "done" =>
        /\ x = 1 => result = SumTo(a, Len(a))
        /\ x = 0 - 1 => result = AltSumTo(a, Len(a))

\* The scenario [2, -1, 0.5] at x = -1, in units of one half: 3.5 is 7.
C6_Witness ==
    /\ pc = "done"
    /\ a = ScenarioCoefs
    /\ x = 0 - 1
    /\ result = 7

\* C7: with b_j = 0 for j > N, b_N = a[N] and
\* b_j = a[j] + 2*x*b_{j+1} - b_{j+2}, the loop variables hold b_{k+1} and
\* b_{k+2} before the iteration for index k, hold b_0 and b_1 after the last
\* one, and the value returned is b_0 - x*b_1.
RECURSIVE B(_, _, _)
B(c, y, j) ==
    IF j > Len(c) - 1 THEN 0
    ELSE IF j = Len(c) - 1 THEN c[j + 1]
    ELSE c[j + 1] + 2 * y * B(c, y, j + 1) - B(c, y, j + 2)

C7_Accumulators ==
    /\ pc = "loop" => /\ b_k_plus_1 = B(a, x, k + 1)
                      /\ b_k_plus_2 = B(a, x, k + 2)
    /\ (pc = "done" /\ Len(a) >= 3) =>
           /\ b_k_plus_1 = B(a, x, 0)
           /\ b_k_plus_2 = B(a, x, 1)
           /\ result = B(a, x, 0) - x * B(a, x, 1)

C7_Witness ==
    /\ pc = "loop"
    /\ Len(a) = 4
    /\ k = 0
    /\ x = 2
    /\ b_k_plus_1 = B(a, x, 1)
    /\ b_k_plus_2 = B(a, x, 2)
    /\ b_k_plus_1 # b_k_plus_2
    /\ b_k_plus_2 # 0

\* C8: for one and two coefficients the value returned by the early return
\* is the value the seed, loop and closing step return on the same input.
C8_ShortCircuitAgrees ==
    (pc = "done" /\ Len(a) \in {1, 2}) =>
        /\ GeneralPath(a, x).ok
        /\ GeneralPath(a, x).val = result

C8_Witness ==
    /\ pc = "done"
    /\ Len(a) = 2
    /\ a[1] # 0
    /\ a[2] # 0
    /\ x = 2
    /\ GeneralPath(a, x) = [ok |-> TRUE, val |-> result]

\* C9 (as claimed): for each length 0, 1 and 2 there is an input of that
\* length on which the seed, loop and closing step, run without the early
\* returns, read outside the sequence or return a value other than the
\* series value.
GeneralPathFails(c, y) ==
    \/ ~GeneralPath(c, y).ok
    \/ GeneralPath(c, y).val # tpoly(c, y)

C9_GeneralPathUnusable ==
    (pc = "done" /\ Len(a) \in 0..2) =>
        \E c \in SeqsOfLen(Len(a)) : \E y \in Points : GeneralPathFails(c, y)

\* C9 (amended): run without the early returns, the seed, loop and closing
\* step read outside the sequence exactly when the sequence is empty; for
\* one and two coefficients they read inside it and return the series value.
C9_OnlyEmptyFails ==
    /\ Len(a) = 0 => ~GeneralPath(a, x).ok
    /\ Len(a) \in {1, 2} => /\ GeneralPath(a, x).ok
                            /\ GeneralPath(a, x).val = tpoly(a, x)

C9_Witness ==
    /\ pc = "done"
    /\ Len(a) = 1
    /\ a[1] # 0
    /\ x # 0
    /\ GeneralPath(a, x).ok
    /\ GeneralPath(a, x).val = tpoly(a, x)

\* C10: appending a zero coefficient to a leaves the value unchanged, for
\* every length of a.
C10_AppendZero ==
    pc = "done" =>
        LET r == clenshaw(Append(a, 0), x)
        IN  r.ok /\ r.val = result

C10_Witness ==
    /\ pc = "done"
    /\ Len(a) = 2
    /\ a[2] # 0
    /\ x = 2
    /\ result # a[1]
    /\ clenshaw(Append(a, 0), x).val = result
====
